---- MODULE Spec2Model ----
\* Model of llm_twin's routing and persistence backbone:
\*   llm_engineering/domain/base/nosql.py          (NoSQLBaseDocument ODM)
\*   llm_engineering/domain/documents.py           (document classes)
\*   llm_engineering/domain/types.py               (DataCategory)
\*   llm_engineering/application/preprocessing/dispatchers.py
\*   steps/feature_engineering/query_data_warehouse.py, load_to_vector_db.py,
\*   clean.py
EXTENDS Integers, Sequences, FiniteSets, TLC

\* ------------------------------------------------------------------ bounds
\* identifiers are uuid 1..MaxId
MaxId == 2
\* calls recorded against the record store
MaxCalls == 2
\* documents held by one collection
MaxStore == 2
\* length of a list given to EmbeddingDispatcher.dispatch
MaxBatch == 3
\* documents given to load_to_vector_db
MaxDocs == 5
\* cleaned documents given to _get_metadata
MaxCleaned == 4

Ids == 1..MaxId
\* two sample names ("Paul", "Maxime"), as the strings 1 and 2
Names == {1, 2}

\* ------------------------------------------------------------------ values
\* A Python value is a tagged pair.  "uuid" is a uuid.UUID object, "ustr" is a
\* str holding the canonical text of a uuid, "str" is any other str.
UUID(n) == [t |-> "uuid", v |-> n]
UStr(n) == [t |-> "ustr", v |-> n]
Str(n) == [t |-> "str", v |-> n]
Dict(n) == [t |-> "dict", v |-> n]
NoneV == [t |-> "none", v |-> 0]

\* isinstance(value, uuid.UUID)
IsUUID(x) == x.t = "uuid"

\* str(value): a UUID becomes its canonical text, a str is unchanged
StrOf(x) == IF IsUUID(x) THEN UStr(x.v) ELSE x

\* dict helpers
EmptyMap == [k \in {} |-> NoneV]
Put(m, k, x) == [f \in (DOMAIN m) \cup {k} |-> IF f = k THEN x ELSE m[f]]
Pop(m, k) == [f \in (DOMAIN m) \ {k} |-> m[f]]

\* ------------------------------------------------------------------ classes
\* documents.py: the model classes and their base
Classes == {"UserDocument", "Document", "RepositoryDocument", "PostDocument", "ArticleDocument"}

Parent(c) ==
    CASE c = "UserDocument" -> "NoSQLBaseDocument"
      [] c = "Document" -> "NoSQLBaseDocument"
      [] c = "RepositoryDocument" -> "Document"
      [] c = "PostDocument" -> "Document"
      [] c = "ArticleDocument" -> "Document"
      [] OTHER -> "object"

\* issubclass(c, d)
IsSubclass(c, d) == c = d \/ Parent(c) = d \/ Parent(Parent(c)) = d

\* the declared fields of each class (inherited ones included)
DocumentFields == {"id", "content", "platform", "author_id", "author_full_name"}

FieldsOf(c) ==
    CASE c = "UserDocument" -> {"id", "first_name", "last_name"}
      [] c = "Document" -> DocumentFields
      [] c = "RepositoryDocument" -> DocumentFields \cup {"name", "link"}
      [] c = "PostDocument" -> DocumentFields \cup {"image", "link"}
      [] c = "ArticleDocument" -> DocumentFields \cup {"link"}
      [] OTHER -> {}

FieldType(c, f) ==
    CASE f \in {"id", "author_id"} -> "UUID4"
      [] f = "content" -> "dict"
      [] c = "PostDocument" /\ f \in {"image", "link"} -> "optstr"
      [] OTHER -> "str"

\* fields with a default: id (default_factory=uuid.uuid4), PostDocument.image/link (None)
HasDefault(c, f) == f = "id" \/ (c = "PostDocument" /\ f \in {"image", "link"})

DefaultOf(c, f, fresh) == IF f = "id" THEN UUID(fresh) ELSE NoneV

\* class Settings: name = ...   (UserDocument "users", the three document
\* kinds their DataCategory; Document itself binds no collection)
HasSettings(c) == c \in {"UserDocument", "RepositoryDocument", "PostDocument", "ArticleDocument"}

SettingsName(c) ==
    CASE c = "UserDocument" -> "users"
      [] c = "RepositoryDocument" -> "repositories"
      [] c = "PostDocument" -> "posts"
      [] c = "ArticleDocument" -> "articles"
      [] OTHER -> ""

\* ------------------------------------------------------------------ pydantic
\* validation of one keyword argument against the field's declared type
\* (UUID4 accepts a UUID or its text; str accepts only a str)
Valid(ty, x) ==
    CASE ty = "UUID4" -> x.t \in {"uuid", "ustr"}
      [] ty = "str" -> x.t \in {"str", "ustr"}
      [] ty = "dict" -> x.t = "dict"
      [] ty = "optstr" -> x.t \in {"str", "ustr", "none"}
      [] OTHER -> FALSE

Coerce(ty, x) == IF ty = "UUID4" THEN UUID(x.v) ELSE x

\* an instance: its class, its field values, and pydantic's model_fields_set
Instance(c, data, given) == [cls |-> c, data |-> data, fields_set |-> given]
NoInstance == Instance("None", EmptyMap, {})

\* the result of a call: a returned value or a raised exception
Ok(x) == [ok |-> TRUE, inst |-> x, exc |-> ""]
Raise(e) == [ok |-> FALSE, inst |-> NoInstance, exc |-> e]

\* cls(**kwargs): unknown keys are ignored, a missing required field or a
\* value of the wrong type is a ValidationError, a missing id is generated
Construct(c, kwargs, fresh) ==
    LET given == (DOMAIN kwargs) \cap FieldsOf(c)
        missing == {f \in FieldsOf(c) \ given : ~HasDefault(c, f)}
        bad == {f \in given : ~Valid(FieldType(c, f), kwargs[f])}
    IN  IF missing # {} \/ bad # {}
        THEN Raise("ValidationError")
        ELSE Ok(Instance(c,
                 [f \in FieldsOf(c) |->
                     IF f \in given THEN Coerce(FieldType(c, f), kwargs[f])
                     ELSE DefaultOf(c, f, fresh)],
                 given))

\* ------------------------------------------------------------------ nosql.py
\* mutant: an __eq__ that compares every field, as pydantic's own __eq__ does
dunder_eq_all_fields(self, value) ==
    IF ~IsSubclass(value.cls, self.cls) THEN FALSE
    ELSE self.data = value.data

\* __eq__ (lines 28-32)
dunder_eq(self, value) ==
    IF ~IsSubclass(value.cls, self.cls) THEN FALSE
    ELSE self.data["id"] = value.data["id"]

\* __hash__ (lines 34-35): hash(self.id), the hash of the uuid's integer
dunder_hash(self) == self.data["id"].v

\* the expression a == b: Python asks the right operand first when its type is
\* a proper subclass of the left operand's type; __eq__ never returns
\* NotImplemented, so the first answer stands
PyEq(a, b) ==
    IF a.cls # b.cls /\ IsSubclass(b.cls, a.cls) THEN dunder_eq(b, a)
    ELSE dunder_eq(a, b)

\* model_dump (lines 67-74): pydantic's dump (unset fields left out on
\* exclude_unset), then every UUID value stringified
model_dump(self, exclude_unset) ==
    LET keys == IF exclude_unset THEN self.fields_set ELSE DOMAIN self.data
    IN  [k \in keys |-> IF IsUUID(self.data[k]) THEN StrOf(self.data[k]) ELSE self.data[k]]

\* mutant: a to_mongo that forgets to rename "id" to "_id"
to_mongo_no_rename(self, exclude_unset) == model_dump(self, exclude_unset)

\* to_mongo (lines 50-64)
to_mongo(self, exclude_unset) ==
    LET parsed == model_dump(self, exclude_unset)
        renamed == IF "_id" \notin DOMAIN parsed /\ "id" \in DOMAIN parsed
                   THEN Put(Pop(parsed, "id"), "_id", StrOf(parsed["id"]))
                   ELSE parsed
    IN  [k \in DOMAIN renamed |-> IF IsUUID(renamed[k]) THEN StrOf(renamed[k]) ELSE renamed[k]]

\* from_mongo (lines 38-47)
from_mongo(cls, data) ==
    IF DOMAIN data = {} THEN Raise("ValueError: Data is empty.")
    ELSE IF "_id" \notin DOMAIN data THEN Raise("KeyError")
    ELSE Construct(cls, Put(Pop(data, "_id"), "id", data["_id"]), 1)

\* ------------------------------------------------------------------ the record store
\* The exception classes nosql.py names (pymongo.errors) and the ones its own
\* code raises.  WriteError and BulkWriteError are OperationFailures.
ExcIsA(e, base) ==
    \/ e = base
    \/ base = "Exception"
    \/ base = "OperationFailure" /\ e \in {"WriteError", "BulkWriteError"}

\* the failures the store may answer a call with ("none": the call succeeds)
\* a write fails with the errors save and bulk_insert name, a query with the
\* error find, bulk_find and get_or_create name
InsertOneFailures == {"none", "WriteError"}
InsertManyFailures == {"none", "WriteError", "BulkWriteError"}
QueryFailures == {"none", "OperationFailure"}

\* a stored document matches a filter when it holds every filter key with an
\* equal value (a UUID object never equals the text stored for it)
Matches(doc, filter) ==
    \A k \in DOMAIN filter : k \in DOMAIN doc /\ doc[k] = filter[k]

Matching(coll, filter) == SelectSeq(coll, LAMBDA d : Matches(d, filter))

HasKey(coll, doc) == \E i \in 1..Len(coll) : coll[i]["_id"] = doc["_id"]

\* collection.insert_one: the primary key "_id" is unique; a duplicate is a
\* write conflict (DuplicateKeyError, a WriteError)
insert_one(coll, doc, failure) ==
    IF failure # "none" THEN [exc |-> failure, coll |-> coll]
    ELSE IF HasKey(coll, doc) THEN [exc |-> "WriteError", coll |-> coll]
    ELSE [exc |-> "", coll |-> Append(coll, doc)]

\* collection.insert_many: an empty batch is refused by the client before the
\* store is asked (InvalidOperation); documents are written in order; the
\* first duplicate key stops the batch with a BulkWriteError; when the store
\* fails, the first `landed` documents may already be written
RECURSIVE insert_prefix(_, _, _)
insert_prefix(coll, docs, n) ==
    IF n = 0 \/ docs = <<>> THEN [exc |-> "", coll |-> coll]
    ELSE IF HasKey(coll, Head(docs)) THEN [exc |-> "BulkWriteError", coll |-> coll]
    ELSE insert_prefix(Append(coll, Head(docs)), Tail(docs), n - 1)

insert_many(coll, docs, failure, landed) ==
    IF docs = <<>> THEN [exc |-> "InvalidOperation", coll |-> coll]
    ELSE IF failure = "none" THEN insert_prefix(coll, docs, Len(docs))
    ELSE [exc |-> failure, coll |-> insert_prefix(coll, docs, landed).coll]

\* collection.find_one / collection.find
find_one(coll, filter, failure) ==
    IF failure # "none" THEN [exc |-> failure, docs |-> <<>>]
    ELSE LET m == Matching(coll, filter)
         IN  [exc |-> "", docs |-> IF m = <<>> THEN <<>> ELSE <<Head(m)>>]

find_cursor(coll, filter, failure) ==
    IF failure # "none" THEN [exc |-> failure, docs |-> <<>>]
    ELSE [exc |-> "", docs |-> Matching(coll, filter)]

\* ------------------------------------------------------------------ nosql.py, persistence
\* what a persistence call gives its caller
RetInst(x) == [kind |-> "instance", inst |-> x, list |-> <<>>, flag |-> FALSE, exc |-> ""]
RetNone == [kind |-> "none", inst |-> NoInstance, list |-> <<>>, flag |-> FALSE, exc |-> ""]
RetList(l) == [kind |-> "list", inst |-> NoInstance, list |-> l, flag |-> FALSE, exc |-> ""]
RetBool(b) == [kind |-> "bool", inst |-> NoInstance, list |-> <<>>, flag |-> b, exc |-> ""]
Raised(e) == [kind |-> "raise", inst |-> NoInstance, list |-> <<>>, flag |-> FALSE, exc |-> e]

\* a call's result together with the collection it leaves behind
Done(out, coll) == [out |-> out, coll |-> coll]

\* get_collection_name (lines 154-161)
get_collection_name(cls) ==
    IF ~HasSettings(cls) THEN Raise("ImproperlyConfigured") ELSE Ok(NoInstance)

\* mutant: a save that lets the write error through
save_uncaught(self, coll, failure) ==
    LET w == insert_one(coll, to_mongo(self, FALSE), failure)
    IN  IF w.exc # "" THEN Done(Raised(w.exc), w.coll) ELSE Done(RetInst(self), w.coll)

\* save (lines 79-88)
save(self, coll, failure) ==
    IF ~get_collection_name(self.cls).ok THEN Done(Raised("ImproperlyConfigured"), coll)
    ELSE LET w == insert_one(coll, to_mongo(self, FALSE), failure)
         IN  IF w.exc = "" THEN Done(RetInst(self), w.coll)
             ELSE IF ExcIsA(w.exc, "WriteError") THEN Done(RetNone, w.coll)
             ELSE Done(Raised(w.exc), w.coll)

\* mutant: a get_or_create that never looks the record up
get_or_create_always_new(cls, filter, coll, qfail, wfail, fresh) ==
    LET made == Construct(cls, filter, fresh)
    IN  IF ~made.ok THEN Done(Raised(made.exc), coll) ELSE save(made.inst, coll, wfail)

\* get_or_create (lines 93-108).  The except clause logs and re-raises, so an
\* OperationFailure leaves the call as any other exception does.
get_or_create(cls, filter, coll, qfail, wfail, fresh) ==
    IF ~get_collection_name(cls).ok THEN Done(Raised("ImproperlyConfigured"), coll)
    ELSE LET q == find_one(coll, filter, qfail)
         IN  IF q.exc # "" THEN Done(Raised(q.exc), coll)
             ELSE IF q.docs # <<>>
             THEN LET got == from_mongo(cls, q.docs[1])
                  IN  IF got.ok THEN Done(RetInst(got.inst), coll)
                      ELSE Done(Raised(got.exc), coll)
             ELSE LET made == Construct(cls, filter, fresh)
                  IN  IF ~made.ok THEN Done(Raised(made.exc), coll)
                      ELSE save(made.inst, coll, wfail)

\* mutant: bulk_insert whose except clause names errors.WriteError alone
bulk_insert_write_error_only(cls, documents, coll, failure, landed) ==
    IF ~get_collection_name(cls).ok THEN Done(Raised("ImproperlyConfigured"), coll)
    ELSE LET w == insert_many(coll, [i \in 1..Len(documents) |-> to_mongo(documents[i], FALSE)],
                              failure, landed)
         IN  IF w.exc = "" THEN Done(RetBool(TRUE), w.coll)
             ELSE IF ExcIsA(w.exc, "WriteError") THEN Done(RetBool(FALSE), w.coll)
             ELSE Done(Raised(w.exc), w.coll)

\* bulk_insert (lines 111-121)
bulk_insert(cls, documents, coll, failure, landed) ==
    IF ~get_collection_name(cls).ok THEN Done(Raised("ImproperlyConfigured"), coll)
    ELSE LET w == insert_many(coll, [i \in 1..Len(documents) |-> to_mongo(documents[i], FALSE)],
                              failure, landed)
         IN  IF w.exc = "" THEN Done(RetBool(TRUE), w.coll)
             ELSE IF ExcIsA(w.exc, "WriteError") \/ ExcIsA(w.exc, "BulkWriteError")
             THEN Done(RetBool(FALSE), w.coll)
             ELSE Done(Raised(w.exc), w.coll)

\* find (lines 124-136)
find(cls, filter, coll, failure) ==
    IF ~get_collection_name(cls).ok THEN Done(Raised("ImproperlyConfigured"), coll)
    ELSE LET q == find_one(coll, filter, failure)
         IN  IF q.exc # ""
             THEN (IF ExcIsA(q.exc, "OperationFailure") THEN Done(RetNone, coll)
                   ELSE Done(Raised(q.exc), coll))
             ELSE IF q.docs = <<>> THEN Done(RetNone, coll)
             ELSE LET got == from_mongo(cls, q.docs[1])
                  IN  IF got.ok THEN Done(RetInst(got.inst), coll)
                      ELSE IF ExcIsA(got.exc, "OperationFailure") THEN Done(RetNone, coll)
                      ELSE Done(Raised(got.exc), coll)

\* the list comprehension of bulk_find (line 145): from_mongo on each record
\* of the cursor; it returns an instance or raises, never None, so the first
\* record that fails ends the comprehension with its exception
RECURSIVE deserialize_all(_, _)
deserialize_all(cls, docs) ==
    IF docs = <<>> THEN [exc |-> "", list |-> <<>>]
    ELSE LET got == from_mongo(cls, Head(docs))
         IN  IF ~got.ok THEN [exc |-> got.exc, list |-> <<>>]
             ELSE LET rest == deserialize_all(cls, Tail(docs))
                  IN  IF rest.exc # "" THEN rest
                      ELSE [exc |-> "", list |-> <<got.inst>> \o rest.list]

\* bulk_find (lines 140-149)
bulk_find(cls, filter, coll, failure) ==
    IF ~get_collection_name(cls).ok THEN Done(Raised("ImproperlyConfigured"), coll)
    ELSE LET q == find_cursor(coll, filter, failure)
             r == deserialize_all(cls, q.docs)
             e == IF q.exc # "" THEN q.exc ELSE r.exc
         IN  IF e = "" THEN Done(RetList(r.list), coll)
             ELSE IF ExcIsA(e, "OperationFailure") THEN Done(RetList(<<>>), coll)
             ELSE Done(Raised(e), coll)

\* ------------------------------------------------------------------ types.py, dispatchers.py
\* DataCategory (types.py lines 4-15), by value
DataCategory ==
    {"prompt", "queries", "instruct_dataset_samples", "instruct_dataset",
     "preference_dataset_samples", "preference_dataset", "posts", "articles", "repositories"}

\* a document of the vector side: its category, its identifier, its stage
VDoc(cat, id, stage) == [cat |-> cat, id |-> id, stage |-> stage]

\* what a factory or dispatcher call gives: a handler, one document, a list of
\* documents, or an exception
GotHandler(h) == [kind |-> "handler", handler |-> h, items |-> <<>>, exc |-> ""]
GotSingle(d) == [kind |-> "single", handler |-> "", items |-> <<d>>, exc |-> ""]
GotList(l) == [kind |-> "list", handler |-> "", items |-> l, exc |-> ""]
GotRaise(e) == [kind |-> "raise", handler |-> "", items |-> <<>>, exc |-> e]

\* mutant: a factory whose last branch returns no handler instead of raising
Cleaning_create_handler_default(data_category) ==
    IF data_category = "posts" THEN GotHandler("PostCleaningHandler")
    ELSE IF data_category = "articles" THEN GotHandler("ArticleCleaningHandler")
    ELSE IF data_category = "repositories" THEN GotHandler("RepositoryCleaningHandler")
    ELSE GotHandler("")

\* CleaningHandlerFactory.create_handler (lines 30-40)
Cleaning_create_handler(data_category) ==
    IF data_category = "posts" THEN GotHandler("PostCleaningHandler")
    ELSE IF data_category = "articles" THEN GotHandler("ArticleCleaningHandler")
    ELSE IF data_category = "repositories" THEN GotHandler("RepositoryCleaningHandler")
    ELSE GotRaise("ValueError: Unsupported data type")

\* ChunkingHandlerFactory.create_handler (lines 64-74)
Chunking_create_handler(data_category) ==
    IF data_category = "posts" THEN GotHandler("PostChunkingHandler")
    ELSE IF data_category = "articles" THEN GotHandler("ArticleChunkingHandler")
    ELSE IF data_category = "repositories" THEN GotHandler("RepositoryChunkingHandler")
    ELSE GotRaise("ValueError: Unsupported data type")

\* EmbeddingHandlerFactory.create_handler (lines 98-110)
Embedding_create_handler(data_category) ==
    IF data_category = "queries" THEN GotHandler("QueryEmbeddingHandler")
    ELSE IF data_category = "posts" THEN GotHandler("PostEmbeddingHandler")
    ELSE IF data_category = "articles" THEN GotHandler("ArticleEmbeddingHandler")
    ELSE IF data_category = "repositories" THEN GotHandler("RepositoryEmbeddingHandler")
    ELSE GotRaise("ValueError: Unsupported data type")

Factories == {"CleaningHandlerFactory", "ChunkingHandlerFactory", "EmbeddingHandlerFactory"}

create_handler(factory, data_category) ==
    CASE factory = "CleaningHandlerFactory" -> Cleaning_create_handler(data_category)
      [] factory = "ChunkingHandlerFactory" -> Chunking_create_handler(data_category)
      [] OTHER -> Embedding_create_handler(data_category)

\* the module each handler class is imported from (lines 6-24) gives its stage
StageOfHandler(h) ==
    CASE h \in {"PostCleaningHandler", "ArticleCleaningHandler", "RepositoryCleaningHandler"} -> "clean"
      [] h \in {"PostChunkingHandler", "ArticleChunkingHandler", "RepositoryChunkingHandler"} -> "chunk"
      [] h \in {"QueryEmbeddingHandler", "PostEmbeddingHandler", "ArticleEmbeddingHandler",
                "RepositoryEmbeddingHandler"} -> "embed"
      [] OTHER -> "none"

\* the handlers' work is done outside this code: clean gives the cleaned
\* document, chunk a list of n chunks, embed_batch one embedded chunk per chunk
clean(doc) == VDoc(doc.cat, doc.id, "cleaned")
chunk(doc, n) == [i \in 1..n |-> VDoc(doc.cat, i, "chunk")]
embed_batch(docs) == [i \in 1..Len(docs) |-> VDoc(docs[i].cat, docs[i].id, "embedded")]

\* a dispatch call: the create_handler calls it made (by category), the
\* handler methods it invoked, and what it gave
Dispatched(factoryCalls, handlerCalls, out) ==
    [factoryCalls |-> factoryCalls, handlerCalls |-> handlerCalls, out |-> out]

\* CleaningDispatcher.dispatch (lines 46-58): the category is the enum member
\* whose value is the document's collection name
CleaningDispatcher_dispatch(cls, id) ==
    IF ~get_collection_name(cls).ok THEN Dispatched(<<>>, <<>>, GotRaise("ImproperlyConfigured"))
    ELSE IF SettingsName(cls) \notin DataCategory
    THEN Dispatched(<<>>, <<>>, GotRaise("ValueError: not a valid DataCategory"))
    ELSE LET data_category == SettingsName(cls)
             handler == Cleaning_create_handler(data_category)
         IN  IF handler.kind = "raise" THEN Dispatched(<<data_category>>, <<>>, handler)
             ELSE Dispatched(<<data_category>>, <<handler.handler>>,
                             GotSingle(clean(VDoc(data_category, id, "raw"))))

\* ChunkingDispatcher.dispatch (lines 80-92)
ChunkingDispatcher_dispatch(data_model, n) ==
    LET data_category == data_model.cat
        handler == Chunking_create_handler(data_category)
    IN  IF handler.kind = "raise" THEN Dispatched(<<data_category>>, <<>>, handler)
        ELSE Dispatched(<<data_category>>, <<handler.handler>>, GotList(chunk(data_model, n)))

\* mutant: dispatch with the homogeneity assertion missing
EmbeddingDispatcher_dispatch_no_assert(is_list, data_model) ==
    IF Len(data_model) = 0 THEN Dispatched(<<>>, <<>>, GotList(<<>>))
    ELSE LET data_category == data_model[1].cat
             handler == Embedding_create_handler(data_category)
         IN  IF handler.kind = "raise" THEN Dispatched(<<data_category>>, <<>>, handler)
             ELSE Dispatched(<<data_category>>, <<handler.handler>>,
                             IF is_list THEN GotList(embed_batch(data_model))
                             ELSE GotSingle(embed_batch(data_model)[1]))

\* mutant: dispatch that forgets to unwrap the result of a single document
EmbeddingDispatcher_dispatch_always_list(is_list, data_model) ==
    IF Len(data_model) = 0 THEN Dispatched(<<>>, <<>>, GotList(<<>>))
    ELSE LET data_category == data_model[1].cat
             handler == Embedding_create_handler(data_category)
         IN  IF \E i \in 1..Len(data_model) : data_model[i].cat # data_category
             THEN Dispatched(<<>>, <<>>, GotRaise("AssertionError"))
             ELSE IF handler.kind = "raise" THEN Dispatched(<<data_category>>, <<>>, handler)
             ELSE Dispatched(<<data_category>>, <<handler.handler>>, GotList(embed_batch(data_model)))

\* mutant: dispatch without the empty-list return of lines 124-125, so that
\* data_model[0] is evaluated on an empty list
EmbeddingDispatcher_dispatch_no_empty_return(is_list, data_model) ==
    IF Len(data_model) = 0 THEN Dispatched(<<>>, <<>>, GotRaise("IndexError"))
    ELSE LET data_category == data_model[1].cat
             handler == Embedding_create_handler(data_category)
         IN  IF \E i \in 1..Len(data_model) : data_model[i].cat # data_category
             THEN Dispatched(<<>>, <<>>, GotRaise("AssertionError"))
             ELSE IF handler.kind = "raise" THEN Dispatched(<<data_category>>, <<>>, handler)
             ELSE Dispatched(<<data_category>>, <<handler.handler>>,
                             IF is_list THEN GotList(embed_batch(data_model))
                             ELSE GotSingle(embed_batch(data_model)[1]))

\* EmbeddingDispatcher.dispatch (lines 116-143); data_model is the list after
\* line 122 wrapped a single document, is_list tells what the caller gave
EmbeddingDispatcher_dispatch(is_list, data_model) ==
    IF Len(data_model) = 0 THEN Dispatched(<<>>, <<>>, GotList(<<>>))
    ELSE LET data_category == data_model[1].cat
             handler == Embedding_create_handler(data_category)
         IN  IF \E i \in 1..Len(data_model) : data_model[i].cat # data_category
             THEN Dispatched(<<>>, <<>>, GotRaise("AssertionError"))
             ELSE IF handler.kind = "raise" THEN Dispatched(<<data_category>>, <<>>, handler)
             ELSE Dispatched(<<data_category>>, <<handler.handler>>,
                             IF is_list THEN GotList(embed_batch(data_model))
                             ELSE GotSingle(embed_batch(data_model)[1]))

\* ------------------------------------------------------------------ state
VARIABLES
    recA, recB,     \* codec: two records under test
    ser, serOpt,    \* codec: to_mongo(recA, exclude_unset=serOpt)
    back,           \* codec: result of from_mongo on ser
    cmp,            \* codec: results of recA == recB, recB == recA, the hashes
    codecPc,
    store,          \* the "users" collection of the record store, in insertion order
    calls,          \* the persistence calls made, each with its arguments and result
    lastDispatch,   \* the latest factory or dispatcher call, with what it did
    loadPc, loadQueue, loadLog, loadResult,     \* load_to_vector_db
    fetchPc, futures, results,                  \* fetch_all_data
    metaPc, metaDocs, metaOrder, metadata       \* clean.py _get_metadata

codecVars == <<recA, recB, ser, serOpt, back, cmp, codecPc>>
storeVars == <<store, calls>>
dispVars == <<lastDispatch>>
loadVars == <<loadPc, loadQueue, loadLog, loadResult>>
fetchVars == <<fetchPc, futures, results>>
metaVars == <<metaPc, metaDocs, metaOrder, metadata>>
vars == <<codecVars, storeVars, dispVars, loadVars, fetchVars, metaVars>>

NoDispatch ==
    [disp |-> "", cls |-> "", is_list |-> FALSE, input |-> <<>>,
     factoryCalls |-> <<>>, handlerCalls |-> <<>>, out |-> GotRaise("")]

DispIdle == lastDispatch = NoDispatch
LoadIdle == loadPc = "idle" /\ loadQueue = <<>> /\ loadLog = <<>> /\ loadResult = "none"
FetchIdle == fetchPc = <<"idle", 0>> /\ futures = <<>> /\ results = <<>>
MetaIdle == metaPc = "idle" /\ metaDocs = <<>> /\ metaOrder = <<>> /\ metadata = <<>>

\* ------------------------------------------------------------------ records under test
\* keyword arguments a caller may construct each class from; the id is either
\* supplied (as a UUID) or left to the default factory
BaseKwargs(c) ==
    IF c = "UserDocument"
    THEN {[first_name |-> Str(n), last_name |-> Str(1)] : n \in Names}
    ELSE LET common == {[content |-> Dict(1), platform |-> Str(1),
                         author_id |-> UUID(a), author_full_name |-> Str(n)] :
                             a \in Ids, n \in Names}
         IN  CASE c = "RepositoryDocument" ->
                     {Put(Put(k, "name", Str(1)), "link", Str(1)) : k \in common}
               [] c = "ArticleDocument" -> {Put(k, "link", Str(1)) : k \in common}
               [] OTHER -> common

KwargsOf(c) == BaseKwargs(c) \cup {Put(k, "id", UUID(i)) : k \in BaseKwargs(c), i \in Ids}

RecordsOf(c) == {Construct(c, k, fresh).inst : k \in KwargsOf(c), fresh \in Ids}

\* Document is the abstract base of the three document kinds; records are
\* instances of the concrete classes
ConcreteClasses == {c \in Classes : HasSettings(c)}

Records == UNION {RecordsOf(c) : c \in ConcreteClasses}

CmpNone == [done |-> FALSE, eqAB |-> FALSE, eqBA |-> FALSE, hashA |-> 0, hashB |-> 0]

CodecIdle ==
    /\ recA = NoInstance /\ recB = NoInstance
    /\ ser = EmptyMap /\ serOpt = FALSE
    /\ back = Raise("") /\ cmp = CmpNone /\ codecPc = "idle"

StoreIdle == store = <<>> /\ calls = <<>>

CodecInit ==
    /\ recA \in Records /\ recB \in Records
    /\ ser = EmptyMap /\ serOpt = FALSE
    /\ back = Raise("") /\ cmp = CmpNone /\ codecPc = "new"
    /\ StoreIdle /\ DispIdle /\ LoadIdle /\ FetchIdle /\ MetaIdle

\* recA == recB, recB == recA, hash(recA), hash(recB)
Compare ==
    /\ codecPc = "new" /\ ~cmp.done
    /\ cmp' = [done |-> TRUE, eqAB |-> PyEq(recA, recB), eqBA |-> PyEq(recB, recA),
               hashA |-> dunder_hash(recA), hashB |-> dunder_hash(recB)]
    /\ UNCHANGED <<recA, recB, ser, serOpt, back, codecPc, storeVars, dispVars, loadVars, fetchVars, metaVars>>

\* ser = recA.to_mongo(exclude_unset=...)
Serialize ==
    /\ codecPc = "new"
    /\ \E ex \in BOOLEAN : ser' = to_mongo(recA, ex) /\ serOpt' = ex
    /\ codecPc' = "dumped"
    /\ UNCHANGED <<recA, recB, back, cmp, storeVars, dispVars, loadVars, fetchVars, metaVars>>

\* back = type(recA).from_mongo(ser)
Deserialize ==
    /\ codecPc = "dumped"
    /\ back' = from_mongo(recA.cls, ser)
    /\ codecPc' = "loaded"
    /\ UNCHANGED <<recA, recB, ser, serOpt, cmp, storeVars, dispVars, loadVars, fetchVars, metaVars>>

CodecNext == Compare \/ Serialize \/ Deserialize

SpecCodec == CodecInit /\ [][CodecNext]_vars

\* ------------------------------------------------------------------ persistence calls
\* the classes persistence calls are made on: one bound to a collection, and
\* the abstract Document, which binds none
StoreClasses == {"UserDocument", "Document"}

\* users a caller may save
UserInstances ==
    {Construct("UserDocument",
               [id |-> UUID(i), first_name |-> Str(n), last_name |-> Str(1)], i).inst :
         i \in Ids, n \in Names}

\* filters a caller may pass: full name, full name with an id (given as its
\* text), first name only
FiltersOf(cls) ==
    IF cls = "UserDocument"
    THEN {[first_name |-> Str(n), last_name |-> Str(1)] : n \in Names}
         \cup {[id |-> UStr(i), first_name |-> Str(1), last_name |-> Str(1)] : i \in Ids}
         \cup {[first_name |-> Str(1)]}
    ELSE {[platform |-> Str(1)]}

\* batches a caller may bulk-insert: users with distinct ids in ascending
\* order, and one batch that repeats a user
RECURSIVE AscendingFrom(_)
AscendingFrom(i) ==
    IF i > MaxId THEN {<<>>}
    ELSE AscendingFrom(i + 1) \cup
         {<<Construct("UserDocument",
                      [id |-> UUID(i), first_name |-> Str(1), last_name |-> Str(1)], i).inst>> \o t :
              t \in AscendingFrom(i + 1)}

Batches ==
    LET asc == {b \in AscendingFrom(1) : Len(b) <= MaxStore}
    IN  asc \cup {b \o b : b \in {a \in asc : Len(a) = 1}}

\* a record written to the collection by an earlier schema: it lacks
\* last_name and its key is not a uuid's text, so the model rejects it
LegacyDoc == [_id |-> Str(1), first_name |-> Str(1)]

InitialStores == {<<>>, <<LegacyDoc>>}

StoredIds(coll) == {coll[i]["_id"].v : i \in {j \in 1..Len(coll) : coll[j]["_id"].t = "ustr"}}

\* uuid.uuid4() gives an identifier no stored record has
FreshIds(coll) ==
    IF Ids \ StoredIds(coll) = {} THEN {MaxId + 1} ELSE Ids \ StoredIds(coll)

Call(op, cls, filter, inst, batch, qfail, wfail, pre, out) ==
    [op |-> op, cls |-> cls, filter |-> filter, inst |-> inst, batch |-> batch,
     qfail |-> qfail, wfail |-> wfail, pre |-> pre, out |-> out]

\* the log keeps every call of a session, or only the latest call
Logged(c, keep) == IF keep THEN Append(calls, c) ELSE <<c>>

\* a call ends: the collection is what the call left, the call is logged
\* (the collection holds at most MaxStore documents)
Finish(r, c, keep) ==
    /\ Len(r.coll) <= MaxStore
    /\ store' = r.coll
    /\ calls' = Logged(c, keep)
    /\ UNCHANGED <<codecVars, dispVars, loadVars, fetchVars, metaVars>>

SaveCall(keep) ==
    \E self \in UserInstances, failure \in InsertOneFailures :
        LET r == save(self, store, failure)
        IN  Finish(r, Call("save", self.cls, EmptyMap, self, <<>>, "none", failure, store, r.out), keep)

GetOrCreateCall(keep) ==
    \E cls \in StoreClasses, qfail \in QueryFailures, wfail \in InsertOneFailures,
       fresh \in FreshIds(store) :
        \E filter \in FiltersOf(cls) :
            LET r == get_or_create(cls, filter, store, qfail, wfail, fresh)
            IN  Finish(r, Call("get_or_create", cls, filter, NoInstance, <<>>, qfail, wfail, store, r.out), keep)

BulkInsertCall(keep) ==
    \E cls \in StoreClasses, documents \in Batches, failure \in InsertManyFailures :
        \E landed \in 0..Len(documents) :
            LET r == bulk_insert(cls, documents, store, failure, landed)
            IN  /\ failure = "none" => landed = 0
                /\ documents = <<>> => failure = "none"
                /\ Finish(r, Call("bulk_insert", cls, EmptyMap, NoInstance, documents, "none", failure, store, r.out), keep)

FindCall(keep) ==
    \E cls \in StoreClasses, failure \in QueryFailures :
        \E filter \in FiltersOf(cls) :
            LET r == find(cls, filter, store, failure)
            IN  Finish(r, Call("find", cls, filter, NoInstance, <<>>, failure, "none", store, r.out), keep)

BulkFindCall(keep) ==
    \E cls \in StoreClasses, failure \in QueryFailures :
        \E filter \in FiltersOf(cls) :
            LET r == bulk_find(cls, filter, store, failure)
            IN  Finish(r, Call("bulk_find", cls, filter, NoInstance, <<>>, failure, "none", store, r.out), keep)

StoreInit ==
    /\ store \in InitialStores /\ calls = <<>>
    /\ CodecIdle /\ DispIdle /\ LoadIdle /\ FetchIdle /\ MetaIdle

Save == Len(store) <= MaxStore /\ SaveCall(FALSE)
GetOrCreate == Len(store) <= MaxStore /\ GetOrCreateCall(FALSE)
BulkInsert == Len(store) <= MaxStore /\ BulkInsertCall(FALSE)
Find == Len(store) <= MaxStore /\ FindCall(FALSE)
BulkFind == Len(store) <= MaxStore /\ BulkFindCall(FALSE)

StoreNext == Save \/ GetOrCreate \/ BulkInsert \/ Find \/ BulkFind

\* any persistence call, any number of times; calls holds the latest
SpecStore == StoreInit /\ [][StoreNext]_vars

\* a caller's session of at most MaxCalls save / get_or_create calls, all kept
SessionSave == Len(calls) < MaxCalls /\ SaveCall(TRUE)
SessionGetOrCreate == Len(calls) < MaxCalls /\ GetOrCreateCall(TRUE)

SessionNext == SessionSave \/ SessionGetOrCreate

SpecSession == StoreInit /\ [][SessionNext]_vars

\* ------------------------------------------------------------------ factory and dispatcher calls
DispatchCall(disp, cls, is_list, input, d) ==
    [disp |-> disp, cls |-> cls, is_list |-> is_list, input |-> input,
     factoryCalls |-> d.factoryCalls, handlerCalls |-> d.handlerCalls, out |-> d.out]

\* lists of at most MaxBatch documents of any categories, numbered in order
DocLists ==
    UNION {{[i \in 1..n |-> VDoc(cats[i], i, "chunk")] : cats \in [1..n -> DataCategory]} :
               n \in 0..MaxBatch}

DispInit == DispIdle /\ CodecIdle /\ StoreIdle /\ LoadIdle /\ FetchIdle /\ MetaIdle

\* factory.create_handler(category), called directly
FactoryCreate ==
    /\ lastDispatch = NoDispatch
    /\ \E factory \in Factories, category \in DataCategory :
           lastDispatch' = DispatchCall(factory, "", FALSE, <<VDoc(category, 0, "")>>,
                               Dispatched(<<category>>, <<>>, create_handler(factory, category)))
    /\ UNCHANGED <<codecVars, storeVars, loadVars, fetchVars, metaVars>>

\* CleaningDispatcher.dispatch(document) on a record of any class
CleaningDispatch ==
    /\ lastDispatch = NoDispatch
    /\ \E cls \in Classes, id \in Ids :
           lastDispatch' = DispatchCall("CleaningDispatcher", cls, FALSE,
                               <<VDoc(SettingsName(cls), id, "raw")>>,
                               CleaningDispatcher_dispatch(cls, id))
    /\ UNCHANGED <<codecVars, storeVars, loadVars, fetchVars, metaVars>>

\* ChunkingDispatcher.dispatch(document); the handler cuts it into n chunks
ChunkingDispatch ==
    /\ lastDispatch = NoDispatch
    /\ \E category \in DataCategory, id \in Ids, n \in 0..MaxBatch :
           LET doc == VDoc(category, id, "cleaned")
           IN  lastDispatch' = DispatchCall("ChunkingDispatcher", "", FALSE, <<doc>>,
                                   ChunkingDispatcher_dispatch(doc, n))
    /\ UNCHANGED <<codecVars, storeVars, loadVars, fetchVars, metaVars>>

\* EmbeddingDispatcher.dispatch(document)
EmbeddingDispatchOne ==
    /\ lastDispatch = NoDispatch
    /\ \E category \in DataCategory, id \in Ids :
           LET doc == VDoc(category, id, "chunk")
           IN  lastDispatch' = DispatchCall("EmbeddingDispatcher", "", FALSE, <<doc>>,
                                   EmbeddingDispatcher_dispatch(FALSE, <<doc>>))
    /\ UNCHANGED <<codecVars, storeVars, loadVars, fetchVars, metaVars>>

\* EmbeddingDispatcher.dispatch([documents])
EmbeddingDispatchList ==
    /\ lastDispatch = NoDispatch
    /\ \E docs \in DocLists :
           lastDispatch' = DispatchCall("EmbeddingDispatcher", "", TRUE, docs,
                               EmbeddingDispatcher_dispatch(TRUE, docs))
    /\ UNCHANGED <<codecVars, storeVars, loadVars, fetchVars, metaVars>>

\* the caller takes the result (or the exception); the next call may start
TakeResult ==
    /\ lastDispatch # NoDispatch
    /\ lastDispatch' = NoDispatch
    /\ UNCHANGED <<codecVars, storeVars, loadVars, fetchVars, metaVars>>

DispNext ==
    \/ FactoryCreate \/ CleaningDispatch \/ ChunkingDispatch
    \/ EmbeddingDispatchOne \/ EmbeddingDispatchList \/ TakeResult

SpecDispatch == DispInit /\ [][DispNext]_vars

\* ------------------------------------------------------------------ load_to_vector_db.py
\* the batch size of line 20
BatchSize == 4

\* the classes of the embedded chunks the step receives
EmbeddedClasses == {"EmbeddedArticleChunk", "EmbeddedPostChunk", "EmbeddedRepositoryChunk"}

\* the step's input: a list of documents, each of one class (a document is
\* named by its position in the list)
DocumentLists == UNION {[1..n -> EmbeddedClasses] : n \in 0..MaxDocs}

\* the classes of a list, in order of first appearance
RECURSIVE Distinct(_)
Distinct(s) ==
    IF s = <<>> THEN <<>>
    ELSE <<Head(s)>> \o Distinct(SelectSeq(Tail(s), LAMBDA x : x # Head(s)))

\* VectorBaseDocument.group_by_class: the documents of each class, in order
group_by_class(documents) ==
    LET order == Distinct(documents)
        positions == [i \in 1..Len(documents) |-> i]
    IN  [g \in 1..Len(order) |->
            [cls |-> order[g],
             documents |-> SelectSeq(positions, LAMBDA i : documents[i] = order[g])]]

\* utils.misc.batch(list, size): consecutive slices of at most size elements
RECURSIVE batch(_, _)
batch(list, size) ==
    IF list = <<>> THEN <<>>
    ELSE IF Len(list) <= size THEN <<list>>
    ELSE <<SubSeq(list, 1, size)>> \o batch(SubSeq(list, size + 1, Len(list)), size)

\* the bulk_insert calls of the two nested loops (lines 18-22), in order
RECURSIVE BatchesOf(_)
BatchesOf(groups) ==
    IF groups = <<>> THEN <<>>
    ELSE LET b == batch(Head(groups).documents, BatchSize)
         IN  [i \in 1..Len(b) |-> [cls |-> Head(groups).cls, documents |-> b[i]]]
             \o BatchesOf(Tail(groups))

\* document_class.bulk_insert(documents_batch) returns True, returns False
\* (it caught the store's write failure), or raises
BulkInsertResults == {"True", "False", "raise"}

LoadInit == LoadIdle /\ CodecIdle /\ StoreIdle /\ DispIdle /\ FetchIdle /\ MetaIdle

\* load_to_vector_db(documents) is called: lines 15-17
LoadCall ==
    /\ loadPc = "idle"
    /\ \E documents \in DocumentLists : loadQueue' = BatchesOf(group_by_class(documents))
    /\ loadPc' = "loop" /\ loadLog' = <<>> /\ loadResult' = "none"
    /\ UNCHANGED <<codecVars, storeVars, dispVars, fetchVars, metaVars>>

\* one pass of the inner loop (lines 20-26): the value bulk_insert returns is
\* not looked at; only an exception ends the step, with False
LoadBatch ==
    /\ loadPc = "loop" /\ loadQueue # <<>>
    /\ \E result \in BulkInsertResults :
           /\ loadLog' = Append(loadLog, [cls |-> Head(loadQueue).cls,
                                          documents |-> Head(loadQueue).documents,
                                          result |-> result])
           /\ IF result = "raise"
              THEN loadPc' = "returned" /\ loadResult' = "False" /\ loadQueue' = loadQueue
              ELSE loadPc' = "loop" /\ loadResult' = loadResult /\ loadQueue' = Tail(loadQueue)
    /\ UNCHANGED <<codecVars, storeVars, dispVars, fetchVars, metaVars>>

\* both loops are over: return True (line 28)
LoadReturn ==
    /\ loadPc = "loop" /\ loadQueue = <<>>
    /\ loadPc' = "returned" /\ loadResult' = "True"
    /\ UNCHANGED <<loadQueue, loadLog, codecVars, storeVars, dispVars, fetchVars, metaVars>>

LoadNext == LoadCall \/ LoadBatch \/ LoadReturn

SpecLoad == LoadInit /\ [][LoadNext]_vars

\* ------------------------------------------------------------------ query_data_warehouse.py
\* the three queries of fetch_all_data, in submission order (lines 46-50),
\* and the class each one calls bulk_find on (lines 65-74)
Queries == <<"articles", "posts", "repositories">>
QueryNames == {Queries[i] : i \in 1..Len(Queries)}

ClassOfQuery(q) ==
    CASE q = "articles" -> "ArticleDocument"
      [] q = "posts" -> "PostDocument"
      [] OTHER -> "RepositoryDocument"

\* document i of a class, written by the user
AuthoredDoc(cls, i, user) ==
    LET k == CHOOSE b \in BaseKwargs(cls) :
                 b["author_id"] = UUID(user) /\ b["author_full_name"] = Str(1)
    IN  to_mongo(Construct(cls, Put(k, "id", UUID(i)), i).inst, FALSE)

\* what a class's collection may hold when its query runs: up to MaxStore
\* documents of the user, or a record of the user that the model rejects
CollectionsOf(cls, user) ==
    {[i \in 1..n |-> AuthoredDoc(cls, i, user)] : n \in 0..MaxStore}
    \cup {<<[_id |-> Str(1), author_id |-> UStr(user)]>>}

\* a future: not yet submitted, pending, or finished with what its call gave
Future(state, out) == [state |-> state, out |-> out]

\* mutant: an except clause that catches only the store's errors
fetch_catches_store_errors(exc) == ExcIsA(exc, "OperationFailure")

\* except Exception (line 57)
fetch_catches(exc) == ExcIsA(exc, "Exception")

FetchInit == FetchIdle /\ CodecIdle /\ StoreIdle /\ DispIdle /\ LoadIdle /\ MetaIdle

\* fetch_all_data(user) is called: the executor is created (lines 44-45)
FetchCall ==
    /\ fetchPc[1] = "idle"
    /\ \E user \in Ids : fetchPc' = <<"submit", user>>
    /\ futures' = [q \in QueryNames |-> Future("new", Raised(""))]
    /\ results' = EmptyMap
    /\ UNCHANGED <<codecVars, storeVars, dispVars, loadVars, metaVars>>

\* executor.submit(...) for the next query, in the order of lines 47-49;
\* after the third the main thread enters as_completed (line 53)
Submit ==
    /\ fetchPc[1] = "submit"
    /\ LET n == Cardinality({q \in QueryNames : futures[q].state # "new"})
       IN  /\ futures' = [futures EXCEPT ![Queries[n + 1]].state = "pending"]
           /\ fetchPc' = IF n + 1 = Len(Queries) THEN <<"collect", fetchPc[2]>> ELSE fetchPc
    /\ UNCHANGED <<results, codecVars, storeVars, dispVars, loadVars, metaVars>>

\* a worker thread runs a submitted query: cls.bulk_find(author_id=user_id)
\* against whatever the collection holds, the store answering or failing
WorkerRun ==
    /\ fetchPc[1] # "idle"
    /\ \E q \in QueryNames :
           /\ futures[q].state = "pending"
           /\ \E coll \in CollectionsOf(ClassOfQuery(q), fetchPc[2]), failure \in QueryFailures :
                  futures' = [futures EXCEPT ![q] =
                      Future("finished",
                             bulk_find(ClassOfQuery(q), [author_id |-> StrOf(UUID(fetchPc[2]))],
                                       coll, failure).out)]
    /\ UNCHANGED <<fetchPc, results, codecVars, storeVars, dispVars, loadVars, metaVars>>

\* one pass of the as_completed loop (lines 53-60): a finished future not yet
\* handled gives its result, or the empty list when its call raised
Collect ==
    /\ fetchPc[1] = "collect"
    /\ \E q \in QueryNames \ DOMAIN results :
           /\ futures[q].state = "finished"
           /\ IF futures[q].out.kind # "raise"
              THEN results' = Put(results, q, futures[q].out.list) /\ fetchPc' = fetchPc
              ELSE IF fetch_catches(futures[q].out.exc)
              THEN results' = Put(results, q, <<>>) /\ fetchPc' = fetchPc
              ELSE results' = results /\ fetchPc' = <<"raised", fetchPc[2]>>
    /\ UNCHANGED <<futures, codecVars, storeVars, dispVars, loadVars, metaVars>>

\* as_completed is exhausted once every future was handled; the with block
\* ends (shutdown waits for the workers) and results is returned (line 62)
FetchReturn ==
    /\ fetchPc[1] = "collect"
    /\ DOMAIN results = QueryNames
    /\ \A q \in QueryNames : futures[q].state = "finished"
    /\ fetchPc' = <<"returned", fetchPc[2]>>
    /\ UNCHANGED <<futures, results, codecVars, storeVars, dispVars, loadVars, metaVars>>

FetchNext == FetchCall \/ Submit \/ WorkerRun \/ Collect \/ FetchReturn

SpecFetch == FetchInit /\ [][FetchNext]_vars

\* ------------------------------------------------------------------ clean.py, _get_metadata
\* the categories of cleaned documents and the authors' display names
CleanedCategories == {"posts", "articles", "repositories"}
AuthorNames == {Str(n) : n \in Names}

\* a cleaned document, as far as _get_metadata reads it: get_category() and
\* author_full_name
CleanedDoc(category, author) == [category |-> category, author_full_name |-> author]

CleanedLists ==
    UNION {[1..n -> {CleanedDoc(c, a) : c \in CleanedCategories, a \in AuthorNames}] :
               n \in 0..MaxCleaned}

\* the orders in which a set of strings may be iterated
HashOrders ==
    {o \in [1..Cardinality(AuthorNames) -> AuthorNames] :
         \A a \in AuthorNames : \E i \in DOMAIN o : o[i] = a}

\* list(set(l)): each element of l once, in the set's iteration order
list_of_set(l, order) == SelectSeq(order, LAMBDA a : \E i \in 1..Len(l) : l[i] = a)

\* the first loop of _get_metadata (lines 28-36)
RECURSIVE count_documents(_, _)
count_documents(meta, documents) ==
    IF documents = <<>> THEN meta
    ELSE LET category == Head(documents).category
             m1 == IF category \notin DOMAIN meta
                   THEN Put(meta, category, EmptyMap) ELSE meta
             m2 == IF "authors" \notin DOMAIN m1[category]
                   THEN Put(m1, category, Put(m1[category], "authors", <<>>)) ELSE m1
             n  == IF "num_documents" \in DOMAIN m2[category]
                   THEN m2[category]["num_documents"] ELSE 0
             m3 == Put(m2, category, Put(m2[category], "num_documents", n + 1))
             m4 == Put(m3, category,
                       Put(m3[category], "authors",
                           Append(m3[category]["authors"], Head(documents).author_full_name)))
         IN  count_documents(m4, Tail(documents))

\* mutant: _get_metadata without the second loop
get_metadata_keep_duplicates(cleaned_documents, order) ==
    count_documents(Put(EmptyMap, "num_documents", Len(cleaned_documents)), cleaned_documents)

\* _get_metadata (lines 26-42); the value under "num_documents" is the only
\* one that is not a dict
get_metadata(cleaned_documents, order) ==
    LET m == count_documents(Put(EmptyMap, "num_documents", Len(cleaned_documents)),
                             cleaned_documents)
    IN  [k \in DOMAIN m |->
            IF k # "num_documents" /\ "authors" \in DOMAIN m[k]
            THEN Put(m[k], "authors", list_of_set(m[k]["authors"], order))
            ELSE m[k]]

MetaInit ==
    /\ metaPc = "called" /\ metaDocs \in CleanedLists /\ metaOrder \in HashOrders
    /\ metadata = <<>>
    /\ CodecIdle /\ StoreIdle /\ DispIdle /\ LoadIdle /\ FetchIdle

\* _get_metadata(cleaned_documents) returns
GetMetadata ==
    /\ metaPc = "called"
    /\ metadata' = get_metadata(metaDocs, metaOrder)
    /\ metaPc' = "returned"
    /\ UNCHANGED <<metaDocs, metaOrder, codecVars, storeVars, dispVars, loadVars, fetchVars>>

MetaNext == GetMetadata

SpecMeta == MetaInit /\ [][MetaNext]_vars

\* ------------------------------------------------------------------ C13
DocsOf(category) == SelectSeq(metaDocs, LAMBDA d : d.category = category)
Present == {metaDocs[i].category : i \in 1..Len(metaDocs)}

RECURSIVE SumCounts(_)
SumCounts(cats) ==
    IF cats = {} THEN 0
    ELSE LET c == CHOOSE x \in cats : TRUE
         IN  metadata[c]["num_documents"] + SumCounts(cats \ {c})

\* C13: for any list of cleaned documents the summary's total count is the
\* list length; each category present has an entry whose count is the number
\* of its documents (the counts sum to the total) and whose author list holds
\* each author name of the category exactly once; a category with no
\* documents has no entry.
C13_MetadataCounts ==
    metaPc = "returned" =>
        /\ metadata["num_documents"] = Len(metaDocs)
        /\ DOMAIN metadata = Present \cup {"num_documents"}
        /\ SumCounts(Present) = Len(metaDocs)
        /\ \A c \in Present :
               LET authors == metadata[c]["authors"]
               IN  /\ DOMAIN metadata[c] = {"authors", "num_documents"}
                   /\ metadata[c]["num_documents"] = Len(DocsOf(c))
                   /\ \A i, j \in 1..Len(authors) : authors[i] = authors[j] => i = j
                   /\ {authors[i] : i \in 1..Len(authors)}
                          = {DocsOf(c)[i].author_full_name : i \in 1..Len(DocsOf(c))}

\* two categories, one author writing two of the three posts
C13_Witness ==
    /\ metaPc = "returned"
    /\ Present = {"posts", "articles"}
    /\ metadata["posts"]["num_documents"] = 3
    /\ Len(metadata["posts"]["authors"]) = 2
    /\ metadata["articles"]["num_documents"] = 1

\* ------------------------------------------------------------------ C1
\* C1: whichever queries raise and in whatever order they complete,
\* fetch_all_data does not raise, returns only after all three submitted
\* queries have settled, and returns a mapping with exactly the keys
\* articles, posts, repositories: each succeeded query's own result list,
\* the empty list for each failed query.
C1_FetchAllSettles ==
    fetchPc[1] # "idle" =>
        /\ fetchPc[1] # "raised"
        /\ fetchPc[1] = "returned" =>
              /\ \A q \in QueryNames : futures[q].state = "finished"
              /\ DOMAIN results = QueryNames
              /\ \A q \in QueryNames :
                     results[q] = IF futures[q].out.kind = "raise" THEN <<>>
                                  ELSE futures[q].out.list

\* fetch_all_data returned after the articles query raised and the other two
\* gave documents
C1_Witness ==
    /\ fetchPc[1] = "returned"
    /\ futures["articles"].out.kind = "raise"
    /\ results["articles"] = <<>>
    /\ Len(results["posts"]) = 2 /\ Len(results["repositories"]) = 1
    /\ results["posts"][1].cls = "PostDocument"

\* ------------------------------------------------------------------ C7
\* C7: load_to_vector_db inserts each group in batches of at most 4; when a
\* batch insert fails (bulk_insert reports failure) the step stops, attempts
\* no later batch and returns false; it returns true only if every batch was
\* inserted successfully.
C7_FailedBatchReturnsFalse ==
    /\ \A i \in 1..Len(loadLog) : Len(loadLog[i].documents) <= BatchSize
    /\ loadPc = "returned" =>
          /\ (\E i \in 1..Len(loadLog) : loadLog[i].result # "True") =>
                /\ loadResult = "False"
                /\ loadLog[Len(loadLog)].result # "True"
                /\ \A i \in 1..(Len(loadLog) - 1) : loadLog[i].result = "True"
          /\ loadResult = "True" =>
                /\ loadQueue = <<>>
                /\ \A i \in 1..Len(loadLog) : loadLog[i].result = "True"

\* ------------------------------------------------------------------ C3, C4, C10
\* the categories each factory has a branch for
Registered(factory) ==
    IF factory = "EmbeddingHandlerFactory" THEN {"queries", "posts", "articles", "repositories"}
    ELSE {"posts", "articles", "repositories"}

StageOfFactory(factory) ==
    CASE factory = "CleaningHandlerFactory" -> "clean"
      [] factory = "ChunkingHandlerFactory" -> "chunk"
      [] OTHER -> "embed"

Mixed(docs) == \E i \in 1..Len(docs) : docs[i].cat # docs[1].cat

\* C3: EmbeddingDispatcher.dispatch on a list whose elements do not all share
\* the first element's category fails with the assertion, and on that call
\* create_handler is not called and no handler is invoked.
C3_MixedFailsBeforeHandler ==
    (lastDispatch.disp = "EmbeddingDispatcher" /\ lastDispatch.is_list
         /\ Mixed(lastDispatch.input)) =>
        /\ lastDispatch.out = GotRaise("AssertionError")
        /\ lastDispatch.factoryCalls = <<>>
        /\ lastDispatch.handlerCalls = <<>>

\* a list of a post chunk and an article chunk was dispatched for embedding
C3_Witness ==
    /\ lastDispatch.disp = "EmbeddingDispatcher" /\ lastDispatch.is_list
    /\ Len(lastDispatch.input) = 2
    /\ lastDispatch.input[1].cat = "posts" /\ lastDispatch.input[2].cat = "articles"
    /\ lastDispatch.out.kind = "raise"

\* C4: create_handler of each factory, for every DataCategory member, gives
\* a handler of the factory's stage when the factory registers the category
\* and otherwise fails with the unsupported-category error, never a null
\* handler; CleaningDispatcher and ChunkingDispatcher, resolving the category
\* themselves, fail and invoke no handler when no handler is registered.
C4_HandlerOrUnsupported ==
    /\ lastDispatch.disp \in Factories =>
          LET category == lastDispatch.input[1].cat
          IN  IF category \in Registered(lastDispatch.disp)
              THEN /\ lastDispatch.out.kind = "handler"
                   /\ StageOfHandler(lastDispatch.out.handler) = StageOfFactory(lastDispatch.disp)
              ELSE lastDispatch.out = GotRaise("ValueError: Unsupported data type")
    /\ lastDispatch.disp = "CleaningDispatcher" =>
          IF lastDispatch.input[1].cat \in Registered("CleaningHandlerFactory")
          THEN /\ lastDispatch.out.kind = "single"
               /\ Len(lastDispatch.handlerCalls) = 1
               /\ StageOfHandler(lastDispatch.handlerCalls[1]) = "clean"
          ELSE lastDispatch.out.kind = "raise" /\ lastDispatch.handlerCalls = <<>>
    /\ lastDispatch.disp = "ChunkingDispatcher" =>
          IF lastDispatch.input[1].cat \in Registered("ChunkingHandlerFactory")
          THEN /\ lastDispatch.out.kind = "list"
               /\ Len(lastDispatch.handlerCalls) = 1
               /\ StageOfHandler(lastDispatch.handlerCalls[1]) = "chunk"
          ELSE /\ lastDispatch.out = GotRaise("ValueError: Unsupported data type")
               /\ lastDispatch.handlerCalls = <<>>

\* the cleaning factory was asked for a handler for the prompt category
C4_Witness ==
    /\ lastDispatch.disp = "CleaningHandlerFactory"
    /\ lastDispatch.input[1].cat = "prompt"
    /\ lastDispatch.out.kind = "raise"

\* C10: EmbeddingDispatcher.dispatch keeps the shape of its input: a single
\* document gives the handler's result for that document, not a list; a
\* non-empty list gives the handler's list result.
C10_ShapePreserved ==
    (/\ lastDispatch.disp = "EmbeddingDispatcher" /\ lastDispatch.input # <<>>
     /\ ~Mixed(lastDispatch.input)
     /\ lastDispatch.input[1].cat \in Registered("EmbeddingHandlerFactory")) =>
        IF lastDispatch.is_list
        THEN lastDispatch.out = GotList(embed_batch(lastDispatch.input))
        ELSE lastDispatch.out = GotSingle(embed_batch(lastDispatch.input)[1])

\* a single article chunk was dispatched for embedding and came back alone
C10_Witness ==
    /\ lastDispatch.disp = "EmbeddingDispatcher" /\ ~lastDispatch.is_list
    /\ lastDispatch.input[1].cat = "articles"
    /\ lastDispatch.out.kind = "single"
    /\ lastDispatch.out.items[1].stage = "embedded"

\* C11: EmbeddingDispatcher.dispatch given an empty list returns an empty
\* list, and on that call create_handler is never called and no handler's
\* embed_batch is invoked.
C11_EmptyListShortCircuits ==
    (/\ lastDispatch.disp = "EmbeddingDispatcher" /\ lastDispatch.is_list
     /\ lastDispatch.input = <<>>) =>
        /\ lastDispatch.out = GotList(<<>>)
        /\ lastDispatch.factoryCalls = <<>>
        /\ lastDispatch.handlerCalls = <<>>

\* the empty list was dispatched for embedding and a list came back
C11_Witness ==
    /\ lastDispatch.disp = "EmbeddingDispatcher" /\ lastDispatch.is_list
    /\ Len(lastDispatch.input) = 0
    /\ lastDispatch.out.kind = "list" /\ Len(lastDispatch.out.items) = 0

\* ------------------------------------------------------------------ C2, C5, C6
Configured(c) == HasSettings(c.cls)
Last == calls[Len(calls)]

\* the collection as call i left it
PostStore(i) == IF i = Len(calls) THEN store ELSE calls[i + 1].pre

\* call i and call i+1 are get_or_create on the same class with the same filter
TwiceSameFilter(i) ==
    /\ calls[i].op = "get_or_create" /\ calls[i + 1].op = "get_or_create"
    /\ calls[i].cls = calls[i + 1].cls
    /\ calls[i].filter = calls[i + 1].filter

SameRecord(a, b) == PyEq(a, b) /\ PyEq(b, a) /\ a.data["id"] = b.data["id"]

\* the store answered every query and write of call c
StoreHealthy(c) == c.qfail = "none" /\ c.wfail = "none"

\* C2 as stated: get_or_create twice in sequence with the same filter returns
\* two equal results (same identifier) and leaves exactly one record matching
\* the filter in the store.  (Stated for a filter that gives the record's
\* required fields and a store that fails neither call.)
C2_TwiceEqualOneRecord ==
    \A i \in 1..(Len(calls) - 1) :
        (/\ TwiceSameFilter(i) /\ Configured(calls[i])
         /\ StoreHealthy(calls[i]) /\ StoreHealthy(calls[i + 1])
         /\ Construct(calls[i].cls, calls[i].filter, 1).ok) =>
            /\ calls[i].out.kind = "instance" /\ calls[i + 1].out.kind = "instance"
            /\ SameRecord(calls[i].out.inst, calls[i + 1].out.inst)
            /\ Len(Matching(PostStore(i + 1), calls[i].filter)) = 1

\* C2 amended: when both calls return a record, the two records are equal
\* (same identifier) and the second call inserts nothing; when no record
\* matched the filter before the first call, exactly one matches after both.
C2_BothReturnEqual ==
    \A i \in 1..(Len(calls) - 1) :
        (/\ TwiceSameFilter(i)
         /\ calls[i].out.kind = "instance" /\ calls[i + 1].out.kind = "instance") =>
            /\ SameRecord(calls[i].out.inst, calls[i + 1].out.inst)
            /\ PostStore(i + 1) = calls[i + 1].pre
            /\ Matching(calls[i].pre, calls[i].filter) = <<>> =>
                  Len(Matching(PostStore(i + 1), calls[i].filter)) = 1

\* the first call created the user, the second call found it
C2_Witness ==
    /\ Len(calls) = 2 /\ TwiceSameFilter(1)
    /\ Matching(calls[1].pre, calls[1].filter) = <<>>
    /\ Len(calls[2].pre) = Len(calls[1].pre) + 1
    /\ calls[1].out.kind = "instance" /\ calls[2].out.kind = "instance"
    /\ "id" \notin calls[1].out.inst.fields_set

\* get_or_create reached its insert: the query succeeded, nothing matched,
\* and the filter made a valid record
ReachedInsert(c) ==
    /\ c.qfail = "none"
    /\ Matching(c.pre, c.filter) = <<>>
    /\ Construct(c.cls, c.filter, 1).ok

\* the store failed the call c: the write or the query the call made
StoreFailed(c) ==
    /\ Configured(c)
    /\ \/ c.op \in {"save", "bulk_insert"} /\ c.wfail # "none"
       \/ c.op \in {"find", "bulk_find", "get_or_create"} /\ c.qfail # "none"
       \/ c.op = "get_or_create" /\ ReachedInsert(c) /\ c.wfail # "none"

\* what the operation gives when it swallows a store failure
Degraded(c) ==
    CASE c.op \in {"save", "find", "get_or_create"} -> RetNone
      [] c.op = "bulk_insert" -> RetBool(FALSE)
      [] OTHER -> RetList(<<>>)

WrittenDocs(c) == [i \in 1..Len(c.batch) |-> to_mongo(c.batch[i], FALSE)]

\* the batch write of the call c failed: the store failed it, or a document
\* of the batch met a key the collection (or the batch before it) holds
BatchWriteFailed(c) ==
    \/ c.wfail # "none"
    \/ insert_prefix(c.pre, WrittenDocs(c), Len(c.batch)).exc # ""

\* C12: bulk_insert returns false whenever the batch write fails (one
\* document's write or the whole batch) and true only when the write
\* completed without failure, every document written; after a false result
\* the collection holds what it held plus whichever documents of the batch
\* landed before the failure: nothing is rolled back.
C12_FalseIffWriteFailed ==
    (calls # <<>> /\ Last.op = "bulk_insert" /\ Configured(Last) /\ Last.batch # <<>>) =>
        /\ BatchWriteFailed(Last) => Last.out = RetBool(FALSE)
        /\ Last.out = RetBool(TRUE) =>
              ~BatchWriteFailed(Last) /\ store = Last.pre \o WrittenDocs(Last)
        /\ Last.out = RetBool(FALSE) =>
              /\ BatchWriteFailed(Last)
              /\ \E n \in 0..Len(Last.batch) :
                     store = Last.pre \o SubSeq(WrittenDocs(Last), 1, n)

\* a batch of two failed as a whole after its first document was written
C12_Witness ==
    /\ calls # <<>> /\ Last.op = "bulk_insert" /\ Configured(Last)
    /\ Len(Last.batch) = 2 /\ Last.wfail = "BulkWriteError"
    /\ Last.out = RetBool(FALSE)
    /\ store = Last.pre \o <<WrittenDocs(Last)[1]>>

\* the records of a cursor that deserialize, in store order
RECURSIVE GoodRecords(_, _)
GoodRecords(cls, docs) ==
    IF docs = <<>> THEN <<>>
    ELSE LET got == from_mongo(cls, Head(docs))
         IN  (IF got.ok THEN <<got.inst>> ELSE <<>>) \o GoodRecords(cls, Tail(docs))

\* C6: bulk_find returns the records that deserialize, in store order, and
\* skips the ones that do not; one bad record does not fail the call.
C6_SkipsBadRecords ==
    (calls # <<>> /\ Last.op = "bulk_find" /\ Configured(Last) /\ Last.qfail = "none") =>
        Last.out = RetList(GoodRecords(Last.cls, Matching(Last.pre, Last.filter)))

\* ------------------------------------------------------------------ C8, C9
\* C8: identity round trip.  For every record r, to_mongo(r) holds "_id" with
\* the string form of r's identifier, holds no "id", holds no UUID object, and
\* from_mongo(to_mongo(r)) is a record equal to r with the same identifier,
\* carried under "id" and not under "_id".
C8_RoundTrip ==
    /\ (codecPc \in {"dumped", "loaded"} /\ ~serOpt) =>
          /\ "_id" \in DOMAIN ser
          /\ ser["_id"] = UStr(recA.data["id"].v)
          /\ "id" \notin DOMAIN ser
          /\ \A k \in DOMAIN ser : ~IsUUID(ser[k])
    /\ (codecPc = "loaded" /\ ~serOpt) =>
          /\ back.ok
          /\ PyEq(back.inst, recA) /\ PyEq(recA, back.inst)
          /\ back.inst.cls = recA.cls
          /\ "id" \in DOMAIN back.inst.data
          /\ "_id" \notin DOMAIN back.inst.data
          /\ back.inst.data["id"] = recA.data["id"]

\* a document with a generated identifier and an author identifier went
\* through to_mongo and from_mongo
C8_Witness ==
    /\ codecPc = "loaded" /\ ~serOpt /\ back.ok
    /\ recA.cls = "ArticleDocument"
    /\ "id" \notin recA.fields_set
    /\ ser["author_id"].t = "ustr"

\* C9 as stated: equality and hash depend on the identifier alone, whatever
\* else differs between the two records.
C9_IdentifierOnly ==
    cmp.done =>
        /\ recA.data["id"] = recB.data["id"] =>
              cmp.eqAB /\ cmp.eqBA /\ cmp.hashA = cmp.hashB
        /\ recA.data["id"] # recB.data["id"] => ~cmp.eqAB /\ ~cmp.eqBA

\* C9 amended: two records of the same class with equal identifiers are equal
\* in both directions whatever their other fields; equal identifiers give
\* equal hashes; different identifiers are never equal.
C9_SameClass ==
    cmp.done =>
        /\ (recA.data["id"] = recB.data["id"] /\ recA.cls = recB.cls) =>
              cmp.eqAB /\ cmp.eqBA
        /\ recA.data["id"] = recB.data["id"] => cmp.hashA = cmp.hashB
        /\ recA.data["id"] # recB.data["id"] => ~cmp.eqAB /\ ~cmp.eqBA

\* two records of one class, same identifier, different other fields, compared
C9_Witness ==
    /\ cmp.done /\ cmp.eqAB /\ cmp.eqBA
    /\ recA.cls = recB.cls
    /\ recA.data["id"] = recB.data["id"]
    /\ recA.data # recB.data

====
